---- MODULE Spec2Model ----
(***************************************************************************)
(* BLS signatures over a pairing-friendly curve (bls12_381-bls): keys,    *)
(* hash adapters, sign / verify, rogue-key-resistant aggregation.          *)
(*                                                                         *)
(* The curve library (dusk_bls12_381) is a collaborator of the crate.  It  *)
(* is modelled by a scaled-down pairing group with the same structure:     *)
(*   - the scalar field is Z_Q, Q prime;                                   *)
(*   - a curve point is its discrete logarithm s in the prime-order        *)
(*     subgroup, a component c in the cofactor (torsion) part, and a flag  *)
(*     telling whether the coordinates satisfy the curve equation;         *)
(*   - the target group is the subgroup of order Q of Z_P^*, P = 2Q + 1;   *)
(*     a Miller loop yields an element of Z_P^* and the final              *)
(*     exponentiation raises it to the power (P - 1) / Q.                  *)
(* hash_to_scalar is a concrete iterated hash into Z_Q.  On the bounded    *)
(* inputs of this model it is collision-free and never zero, and no sum of *)
(* hash-weighted valid keys wraps to the identity: HashIdeal states this   *)
(* and is checked with the model.                                          *)
(*                                                                         *)
(* Spec is the signing and verification flow.  ApkSpec follows the         *)
(* incremental accumulator call by call, KeySpec the storage of a          *)
(* SecretKey until it goes out of scope, LibSpec the encoding, decoding,   *)
(* comparison and signature aggregation calls, WithSpec sign_multisig with *)
(* any public key, ParSpec aggregation with the feature "parallel".        *)
(***************************************************************************)
EXTENDS Integers, Sequences, FiniteSets, TLC

(* ------------------------------ bounds -------------------------------- *)

\* secret keys are drawn from 0 .. MaxSk (0 is the degenerate zero key)
MaxSk == 2

\* longest slice of public keys / largest number of multisig signers
MaxKeys == 2

\* messages are the empty message and the one-byte messages <<b>>,
\* b in 0 .. MaxByte
MaxByte == 1

\* most zeroize calls on one SecretKey
MaxZeroize == 2

\* the longest key slice of a parallel aggregation
MaxPar == 3

\* the most keys one accumulator takes in over its calls
MaxApk == 3

(* ----------------------- the curve library ---------------------------- *)

\* order of the prime-order subgroups G1, G2, Gt; modulus of BlsScalar
Q == 1019

\* modulus of the field that holds the target group Gt
P == 2039

\* order of the torsion part of the curve groups
Cofactor == 2

\* generator of Z_P^*: the Miller loop of the two group generators
MillerBase == 7

RECURSIVE PowMod(_, _, _)
PowMod(b, e, m) ==
    IF e = 0 THEN 1 % m
    ELSE LET h == PowMod(b, e \div 2, m)
             sq == (h * h) % m
         IN  IF e % 2 = 1 THEN (sq * b) % m ELSE sq

\* G1Affine / G2Affine
Point(g, s, c, on) == [grp |-> g, s |-> s, c |-> c, on |-> on]

G1Generator == Point("G1", 1, 0, TRUE)

G2Generator == Point("G2", 1, 0, TRUE)

Identity(g) == Point(g, 0, 0, TRUE)

GtIdentity == 1

is_identity(p) == p.s = 0 /\ p.c = 0

is_torsion_free(p) == p.c = 0

is_on_curve(p) == p.on

\* point addition (the sum of coordinates off the curve stays off the curve)
PointAdd(a, b) ==
    Point(a.grp, (a.s + b.s) % Q, (a.c + b.c) % Cofactor, a.on /\ b.on)

\* point * scalar
PointMul(p, k) ==
    Point(p.grp, (p.s * k) % Q, (p.c * k) % Cofactor, p.on)

\* -point
PointNeg(p) ==
    Point(p.grp, (Q - p.s) % Q, (Cofactor - p.c) % Cofactor, p.on)

\* one Miller loop: an unreduced pairing value in Z_P^*
miller_loop(a, b) == PowMod(MillerBase, (a.s * b.s) % (P - 1), P)

RECURSIVE multi_miller_loop(_)
multi_miller_loop(pairs) ==
    IF pairs = <<>> THEN 1
    ELSE (miller_loop(Head(pairs)[1], Head(pairs)[2])
            * multi_miller_loop(Tail(pairs))) % P

final_exponentiation(f) == PowMod(f, (P - 1) \div Q, P)

\* the pairing e(a, b) of one G1 and one G2 point
pairing(a, b) == final_exponentiation(miller_loop(a, b))

GtMul(x, y) == (x * y) % P

\* BlsScalar::hash_to_scalar: an iterated hash of the bytes into Z_Q
HashSeed == 5381 % Q

HashStep(h, b) == ((((h + b + 1) * (h + b + 1)) % Q) * 31 + b) % Q

RECURSIVE HashFrom(_, _)
HashFrom(h, bytes) ==
    IF bytes = <<>> THEN h
    ELSE HashFrom(HashStep(h, Head(bytes)), Tail(bytes))

hash_to_scalar(bytes) == HashFrom(HashSeed, bytes)

\* a to_bytes that never sets the infinity flag
ToBytes_no_infinity_flag(p) == << 128, p.c, p.s \div 256, p.s % 256 >>

\* G2Affine::to_bytes / G1Affine::to_bytes: the compressed form, a flag
\* byte (compression, infinity), then the x coordinate; y is dropped
ToBytes(p) ==
    << 128 + (IF is_identity(p) THEN 64 ELSE 0), p.c, p.s \div 256, p.s % 256 >>

\* Serializable::SIZE of the point types (the length of ToBytes) and of
\* SecretKey
PointSize == 4

ScalarSize == 2

\* a from_bytes that skips the subgroup check
PointFromBytes_no_subgroup_check(g, bytes) ==
    LET flags == bytes[1]
        c == bytes[2]
        s == bytes[3] * 256 + bytes[4]
    IN  IF flags \div 128 # 1 THEN [tag |-> "Err", err |-> "InvalidData"]
        ELSE IF (flags % 128) \div 64 = 1
        THEN IF c = 0 /\ s = 0
             THEN [tag |-> "Ok", val |-> Identity(g)]
             ELSE [tag |-> "Err", err |-> "InvalidData"]
        ELSE IF s >= Q \/ c >= Cofactor \/ (s = 0 /\ c = 0)
        THEN [tag |-> "Err", err |-> "InvalidData"]
        ELSE [tag |-> "Ok", val |-> Point(g, s, c, TRUE)]

\* G2Affine::from_bytes / G1Affine::from_bytes: the checked decoding of the
\* compressed form.  The compression flag must be set; with the infinity
\* flag the rest must be zero and the point is the identity; otherwise the
\* x coordinate must be canonical and on the curve (y is recomputed), and
\* the point must be free of torsion.
PointFromBytes(g, bytes) ==
    LET flags == bytes[1]
        c == bytes[2]
        s == bytes[3] * 256 + bytes[4]
    IN  IF flags \div 128 # 1 THEN [tag |-> "Err", err |-> "InvalidData"]
        ELSE IF (flags % 128) \div 64 = 1
        THEN IF c = 0 /\ s = 0
             THEN [tag |-> "Ok", val |-> Identity(g)]
             ELSE [tag |-> "Err", err |-> "InvalidData"]
        ELSE IF s >= Q \/ c >= Cofactor \/ (s = 0 /\ c = 0)
        THEN [tag |-> "Err", err |-> "InvalidData"]
        ELSE IF ~is_torsion_free(Point(g, s, c, TRUE))
        THEN [tag |-> "Err", err |-> "InvalidData"]
        ELSE [tag |-> "Ok", val |-> Point(g, s, c, TRUE)]

\* BlsScalar::to_bytes: the canonical value, little-endian
ScalarToBytes(k) == << k % 256, k \div 256 >>

\* SecretKey::from_bytes: BlsScalar::from_bytes gives None for a value that
\* is not below the modulus, and from_bytes then returns InvalidData
ScalarFromBytes(bytes) ==
    LET v == bytes[1] + bytes[2] * 256
    IN  IF v < Q THEN [tag |-> "Ok", val |-> v]
        ELSE [tag |-> "Err", err |-> "InvalidData"]

\* to_raw_bytes: the uncompressed form: the infinity flag, then both
\* coordinates (x as the pair c, s; y as whether it fits the curve equation)
ToRawBytes(p) ==
    << IF is_identity(p) THEN 1 ELSE 0, IF p.on THEN 0 ELSE 1,
       p.c, p.s \div 256, p.s % 256 >>

\* byte strings of one length, compared byte by byte from the first
RECURSIVE LexCmp(_, _)
LexCmp(a, b) ==
    IF a = <<>> THEN "Equal"
    ELSE IF Head(a) < Head(b) THEN "Less"
    ELSE IF Head(a) > Head(b) THEN "Greater"
    ELSE LexCmp(Tail(a), Tail(b))

\* Ordering::reverse
Reverse(o) ==
    IF o = "Less" THEN "Greater" ELSE IF o = "Greater" THEN "Less" ELSE o

\* an order on the checked bytes, which do not tell the y coordinate
cmp_checked_bytes(a, b) == LexCmp(ToBytes(a), ToBytes(b))

\* Ord::cmp of the point types: a total order on the values, taken here as
\* the order of their raw bytes
cmp(a, b) == LexCmp(ToRawBytes(a), ToRawBytes(b))

\* PartialOrd::partial_cmp: Some(cmp)
partial_cmp(a, b) == << cmp(a, b) >>

\* BTreeSet::insert on a set kept as the sorted list of its elements: an
\* element that compares Equal to one of the set is not inserted
BTreeInsert(set, x) ==
    IF \E i \in 1 .. Len(set) : cmp(set[i], x) = "Equal"
    THEN [set |-> set, inserted |-> FALSE]
    ELSE LET k == Cardinality({ i \in 1 .. Len(set) :
                                   cmp(set[i], x) = "Less" })
         IN  [set |-> SubSeq(set, 1, k) \o << x >>
                          \o SubSeq(set, k + 1, Len(set)),
              inserted |-> TRUE]

\* SecretKey::default(): the zero scalar
SecretKeyDefault == 0

\* a zeroize that leaves the scalar in place
zeroize_keeps_scalar(scalar) == scalar

\* Zeroize for SecretKey (derived): the scalar is overwritten with zero
zeroize(scalar) == SecretKeyDefault

\* a destructor that wipes the scalar
drop_in_place_zeroizing(scalar) == zeroize(scalar)

\* what happens to the scalar storage when a SecretKey is destroyed:
\* SecretKey derives Zeroize but neither Drop nor ZeroizeOnDrop, so nothing
\* runs and the storage keeps its content
drop_in_place(scalar) == scalar

(* --------------------------- hash adapters ---------------------------- *)

\* h0 that ignores the message
h0_ignores_msg(msg) == PointMul(G1Generator, hash_to_scalar(<<>>))

\* h0: hash the message to a scalar, multiply the G1 generator by it
h0(msg) == PointMul(G1Generator, hash_to_scalar(msg))

\* h1 that gives every key the weight one
h1_unit_weight(pk) == 1

\* h1: hash the checked byte form of the public key to a scalar
h1(pk) == hash_to_scalar(ToBytes(pk))

(* ------------------------------- keys --------------------------------- *)

\* PublicKey::from(&SecretKey): pk = g_2 * sk
PublicKeyFrom(sk) == PointMul(G2Generator, sk)

\* sign that leaves the secret key out of the product
sign_without_sk(sk, msg) == h0(msg)

\* SecretKey::sign: sig = h0(msg) * sk; no check, no failure
sign(sk, msg) == PointMul(h0(msg), sk)

\* sign_multisig that leaves the weight t out
sign_multisig_unweighted(sk, pk, msg) == sign(sk, msg)

\* a sign_multisig that weights with the signer's own key, whatever pk is
sign_multisig_own_key(sk, pk, msg) ==
    PointMul(sign(sk, msg), h1(PublicKeyFrom(sk)))

\* a sign_multisig that takes the weight from the message, not from pk
sign_multisig_msg_weight(sk, pk, msg) ==
    PointMul(sign(sk, msg), hash_to_scalar(msg))

\* SecretKey::sign_multisig: the single signature times t = h1(pk)
sign_multisig(sk, pk, msg) == PointMul(sign(sk, msg), h1(pk))

\* a pk_t without the weight
pk_t_unweighted(pk) == pk

\* PublicKey::pk_t: pk * h1(pk)
pk_t(pk) == PointMul(pk, h1(pk))

\* is_valid that accepts the identity
is_valid_with_identity(key) == is_torsion_free(key) /\ is_on_curve(key)

\* public.rs is_valid (G2): torsion free, on the curve, not the identity
is_valid(key) ==
    is_torsion_free(key) /\ is_on_curve(key) /\ ~is_identity(key)

\* signatures.rs is_valid (G1): the same predicate on the signature point
is_valid_sig(sig) ==
    is_torsion_free(sig) /\ is_on_curve(sig) /\ ~is_identity(sig)

\* verify that rejects only when both points are invalid
verify_both_invalid(key, sig, msg) ==
    IF ~is_valid(key) /\ ~is_valid_sig(sig)
    THEN [res |-> "InvalidPoint", pairings |-> 0]
    ELSE LET p == final_exponentiation(
                      multi_miller_loop(<< <<sig, G2Generator>>,
                                           <<PointNeg(h0(msg)), key>> >>))
         IN  IF p = GtIdentity
             THEN [res |-> "Ok", pairings |-> 1]
             ELSE [res |-> "InvalidSignature", pairings |-> 1]

\* verify that pairs h0(msg) with the generator in place of the key
verify_generator_for_key(key, sig, msg) ==
    IF ~is_valid(key) \/ ~is_valid_sig(sig)
    THEN [res |-> "InvalidPoint", pairings |-> 0]
    ELSE LET p == final_exponentiation(
                      multi_miller_loop(<< <<sig, G2Generator>>,
                                           <<PointNeg(h0(msg)), G2Generator>> >>))
         IN  IF p = GtIdentity
             THEN [res |-> "Ok", pairings |-> 1]
             ELSE [res |-> "InvalidSignature", pairings |-> 1]

\* verify that checks the signature point only, not the key
verify_unchecked_key(key, sig, msg) ==
    IF ~is_valid_sig(sig)
    THEN [res |-> "InvalidPoint", pairings |-> 0]
    ELSE LET h0m == h0(msg)
             p == final_exponentiation(
                      multi_miller_loop(<< <<sig, G2Generator>>,
                                           <<PointNeg(h0m), key>> >>))
         IN  IF p = GtIdentity
             THEN [res |-> "Ok", pairings |-> 1]
             ELSE [res |-> "InvalidSignature", pairings |-> 1]

\* verify that leaves h0(msg) without its negation
verify_without_neg(key, sig, msg) ==
    IF ~is_valid(key) \/ ~is_valid_sig(sig)
    THEN [res |-> "InvalidPoint", pairings |-> 0]
    ELSE LET p == final_exponentiation(
                      multi_miller_loop(<< <<sig, G2Generator>>,
                                           <<h0(msg), key>> >>))
         IN  IF p = GtIdentity
             THEN [res |-> "Ok", pairings |-> 1]
             ELSE [res |-> "InvalidSignature", pairings |-> 1]

\* public.rs verify, shared by PublicKey::verify and
\* MultisigPublicKey::verify.  pairings counts the multi-pairings evaluated.
verify(key, sig, msg) ==
    IF ~is_valid(key) \/ ~is_valid_sig(sig)
    THEN [res |-> "InvalidPoint", pairings |-> 0]
    ELSE LET h0m == h0(msg)
             p == final_exponentiation(
                      multi_miller_loop(<< <<sig, G2Generator>>,
                                           <<PointNeg(h0m), key>> >>))
         IN  IF p = GtIdentity
             THEN [res |-> "Ok", pairings |-> 1]
             ELSE [res |-> "InvalidSignature", pairings |-> 1]

\* a validity fold that looks at the first key only
all_valid_first_only(pks) == pks = <<>> \/ is_valid(Head(pks))

\* iter().fold(true, |acc, next| acc & next.is_valid())
RECURSIVE all_valid(_)
all_valid(pks) ==
    IF pks = <<>> THEN TRUE
    ELSE is_valid(Head(pks)) /\ all_valid(Tail(pks))

\* a sum that takes the first term only
sum_pk_t_first_only(pks) ==
    IF pks = <<>> THEN Identity("G2") ELSE pk_t(Head(pks))

\* a sum that stops one key short
RECURSIVE sum_pk_t_drop_last(_)
sum_pk_t_drop_last(pks) ==
    IF Len(pks) <= 1 THEN Identity("G2")
    ELSE PointAdd(pk_t(Head(pks)), sum_pk_t_drop_last(Tail(pks)))

\* iter().map(|pk| G2Projective::from(pk.pk_t())).sum()
RECURSIVE sum_pk_t(_)
sum_pk_t(pks) ==
    IF pks = <<>> THEN Identity("G2")
    ELSE PointAdd(pk_t(Head(pks)), sum_pk_t(Tail(pks)))

\* the plain sum of the keys, without the weights: what a caller computes on
\* the points and hands to MultisigPublicKey::from_slice_unchecked
RECURSIVE sum_pk(_)
sum_pk(pks) ==
    IF pks = <<>> THEN Identity("G2")
    ELSE PointAdd(Head(pks), sum_pk(Tail(pks)))

\* aggregate without the check for an empty slice
MultisigAggregate_no_empty_check(pks) ==
    IF ~all_valid(pks) THEN [tag |-> "Err", err |-> "InvalidPoint"]
    ELSE [tag |-> "Ok", key |-> sum_pk_t(pks)]

\* aggregate without the validity fold over the keys
MultisigAggregate_no_validity_check(pks) ==
    IF pks = <<>> THEN [tag |-> "Err", err |-> "NoKeysProvided"]
    ELSE [tag |-> "Ok", key |-> sum_pk_t(pks)]

\* MultisigPublicKey::aggregate
MultisigAggregate(pks) ==
    IF pks = <<>> THEN [tag |-> "Err", err |-> "NoKeysProvided"]
    ELSE IF ~all_valid(pks) THEN [tag |-> "Err", err |-> "InvalidPoint"]
    ELSE [tag |-> "Ok", key |-> sum_pk_t(pks)]

\* a fold that adds each signature to self instead of to the accumulator
SigAggregate_from_self(self, sigs) ==
    IF sigs = <<>> THEN self ELSE PointAdd(self, sigs[Len(sigs)])

\* MultisigSignature::aggregate: fold the signatures into self by addition
RECURSIVE SigAggregate(_, _)
SigAggregate(self, sigs) ==
    IF sigs = <<>> THEN self
    ELSE SigAggregate(PointAdd(self, Head(sigs)), Tail(sigs))

\* an aggregate that accumulates in place, as APK::aggregate does
SigAggregateCall_in_place(self, sigs) ==
    [ret |-> SigAggregate(self, sigs), self |-> SigAggregate(self, sigs),
     sigs |-> sigs]

\* the call s.aggregate(&sigs) with its operands after the call: self and
\* sigs are shared borrows, the result is a new value
SigAggregateCall(self, sigs) ==
    [ret |-> SigAggregate(self, sigs), self |-> self, sigs |-> sigs]

\* an accumulator that starts as pk itself, without the weight
ApkFrom_unweighted(pk) == pk

\* APK::from(&PublicKey): the accumulator starts as pk * h1(pk)
ApkFrom(pk) == PointMul(pk, h1(pk))

\* an aggregate that returns Ok for an empty slice before any check
ApkAggregate_empty_ok(self, pks) ==
    IF pks = <<>> THEN [res |-> "Ok", pt |-> self]
    ELSE IF ~(is_valid(self) /\ all_valid(pks))
    THEN [res |-> "InvalidPoint", pt |-> self]
    ELSE [res |-> "Ok", pt |-> PointAdd(self, sum_pk_t(pks))]

\* an aggregate that stores the sum of pks in place of the accumulator
ApkAggregate_from_sum(self, pks) ==
    IF ~(is_valid(self) /\ all_valid(pks))
    THEN [res |-> "InvalidPoint", pt |-> self]
    ELSE [res |-> "Ok", pt |-> sum_pk_t(pks)]

\* an aggregate that checks the keys of pks only, not the accumulator
ApkAggregate_unchecked_self(self, pks) ==
    IF ~all_valid(pks)
    THEN [res |-> "InvalidPoint", pt |-> self]
    ELSE [res |-> "Ok", pt |-> PointAdd(self, sum_pk_t(pks))]

\* APK::aggregate(&mut self, pks): the accumulator after the call and the
\* result; an error leaves self as it was
ApkAggregate(self, pks) ==
    IF ~(is_valid(self) /\ all_valid(pks))
    THEN [res |-> "InvalidPoint", pt |-> self]
    ELSE [res |-> "Ok", pt |-> PointAdd(self, sum_pk_t(pks))]

(* feature "parallel": the two folds of aggregate become a rayon map and
   reduce. The slice is split into contiguous sub-slices, each sub-slice is
   folded on its own, and the partial results are combined by the reduce
   operation; where the slice is split and which partial result is at
   hand first is up to the scheduler, so each operator below is the set of
   the results the build can produce. *)

\* a reduce operation that keeps the flag of its first operand
reduce_and_keeps_left(acc, next) == acc

\* |acc, next| acc & next
reduce_and(acc, next) == acc /\ next

\* par_iter().map(PublicKey::is_valid).reduce(|| true, |acc, next| acc & next)
RECURSIVE par_all_valid(_)
par_all_valid(pks) ==
    { all_valid(pks) } \cup
    UNION { { reduce_and(a, b) : a \in par_all_valid(SubSeq(pks, 1, i)),
                                b \in par_all_valid(SubSeq(pks, i + 1, Len(pks))) }
            \cup
            { reduce_and(b, a) : a \in par_all_valid(SubSeq(pks, 1, i)),
                                b \in par_all_valid(SubSeq(pks, i + 1, Len(pks))) }
            : i \in 1 .. Len(pks) - 1 }

\* par_iter().map(|pk| G2Projective::from(pk.pk_t())).sum()
RECURSIVE par_sum_pk_t(_)
par_sum_pk_t(pks) ==
    { sum_pk_t(pks) } \cup
    UNION { { PointAdd(a, b) : a \in par_sum_pk_t(SubSeq(pks, 1, i)),
                              b \in par_sum_pk_t(SubSeq(pks, i + 1, Len(pks))) }
            \cup
            { PointAdd(b, a) : a \in par_sum_pk_t(SubSeq(pks, 1, i)),
                              b \in par_sum_pk_t(SubSeq(pks, i + 1, Len(pks))) }
            : i \in 1 .. Len(pks) - 1 }

\* MultisigPublicKey::aggregate, feature "parallel": the results it can give
MultisigAggregatePar(pks) ==
    IF pks = <<>> THEN { [tag |-> "Err", err |-> "NoKeysProvided"] }
    ELSE { IF ~v THEN [tag |-> "Err", err |-> "InvalidPoint"]
           ELSE [tag |-> "Ok", key |-> sum]
           : v \in par_all_valid(pks), sum \in par_sum_pk_t(pks) }

\* APK::aggregate, feature "parallel": the results it can give
ApkAggregatePar(self, pks) ==
    { IF ~(is_valid(self) /\ v) THEN [res |-> "InvalidPoint", pt |-> self]
      ELSE [res |-> "Ok", pt |-> PointAdd(self, sum)]
      : v \in par_all_valid(pks), sum \in par_sum_pk_t(pks) }

(* ------------------------------ inputs -------------------------------- *)

SecretKeys == 0 .. MaxSk

Msgs == { <<>> } \cup { << b >> : b \in 0 .. MaxByte }

\* G2 points only from_slice_unchecked can build: one with a torsion
\* component, one off the curve
UncheckedKeys == { Point("G2", 1, 1, TRUE), Point("G2", 1, 0, FALSE) }

\* the public keys of the secret keys (the identity for the zero key), and
\* the unchecked ones
KeyInputs == { PublicKeyFrom(k) : k \in SecretKeys } \cup UncheckedKeys

KeyLists == UNION { [1 .. n -> KeyInputs] : n \in 0 .. MaxKeys }

\* signature points that are not valid: the Default (identity), one with a
\* torsion component, one off the curve
InvalidSigs ==
    { Identity("G1"), Point("G1", 1, 1, TRUE), Point("G1", 1, 0, FALSE) }

(* ------------------------------- state -------------------------------- *)

VARIABLES
    sk,       \* the signer's SecretKey (a scalar)
    msg,      \* the message that is signed
    sig,      \* <<>>, or <<the Signature sk.sign(msg)>>
    signers,  \* how often each secret key signed into ms_sig
    ms_sig,   \* <<>>, or <<the aggregated MultisigSignature>>
    agg,      \* <<>>, or <<the last MultisigPublicKey::aggregate call>>
    apk,      \* <<>>, or <<the incremental APK accumulator>>
    ver,      \* <<>>, or <<the last verify call>>
    call,     \* <<>>, or <<the last encode, decode or compare call>>
    held      \* the storage of the SecretKey: what it holds (mem), how often
              \* zeroize ran on it, and how the value went out of scope

vars == <<sk, msg, sig, signers, ms_sig, agg, apk, ver, call, held>>

RECURSIVE SumOver(_, _)
SumOver(f, S) ==
    IF S = {} THEN 0
    ELSE LET x == CHOOSE y \in S : TRUE
         IN  f[x] + SumOver(f, S \ {x})

NumSigners == SumOver(signers, SecretKeys)

CountIn(seq, x) == Cardinality({ i \in 1 .. Len(seq) : seq[i] = x })

\* pks holds exactly the public keys of the signers of ms_sig, one entry
\* for each signature, in any order
KeysOfSigners(pks) ==
    /\ Len(pks) = NumSigners
    /\ \A k \in SecretKeys : CountIn(pks, PublicKeyFrom(k)) = signers[k]

Init ==
    /\ sk \in SecretKeys
    /\ msg \in Msgs
    /\ sig = <<>>
    /\ signers = [k \in SecretKeys |-> 0]
    /\ ms_sig = <<>>
    /\ agg = <<>>
    /\ apk = <<>>
    /\ ver = <<>>
    /\ call = <<>>
    /\ held = [mem |-> sk, zeroized |-> 0, gone |-> "no"]

\* let sig = sk.sign(&msg)
Sign ==
    /\ sig = <<>> /\ ms_sig = <<>> /\ agg = <<>> /\ apk = <<>> /\ ver = <<>>
    /\ sig' = << sign(sk, msg) >>
    /\ UNCHANGED <<sk, msg, signers, ms_sig, agg, apk, ver, call, held>>

\* the Signature at hand: sig, or one that is not valid
Sigs == (IF sig = <<>> THEN {} ELSE { sig[1] }) \cup InvalidSigs

\* PublicKey(key).verify(&Signature(s), &m)
VerifyPk(key, s, m) ==
    /\ sig # <<>> /\ ver = <<>>
    /\ ver' = << [who |-> "PublicKey", key |-> key, sig |-> s, msg |-> m,
                  out |-> verify(key, s, m)] >>
    /\ UNCHANGED <<sk, msg, sig, signers, ms_sig, agg, apk, call, held>>

\* the signer k signs msg with k.sign_multisig(&PublicKey::from(&k), &msg);
\* the first such signature is ms_sig, a later one is folded in with
\* ms_sig.aggregate(&[s])
SignMultisig(k) ==
    /\ sig = <<>> /\ agg = <<>> /\ apk = <<>> /\ ver = <<>>
    /\ NumSigners < MaxKeys
    /\ ms_sig = <<>> => k = sk
    /\ LET s == sign_multisig(k, PublicKeyFrom(k), msg)
       IN  ms_sig' = IF ms_sig = <<>> THEN << s >>
                     ELSE << SigAggregate(ms_sig[1], << s >>) >>
    /\ signers' = [signers EXCEPT ![k] = @ + 1]
    /\ UNCHANGED <<sk, msg, sig, agg, apk, ver, call, held>>

\* MultisigPublicKey::aggregate(&pks)
Aggregate(pks) ==
    /\ sig = <<>> /\ agg = <<>> /\ apk = <<>> /\ ver = <<>>
    /\ agg' = << [pks |-> pks, out |-> MultisigAggregate(pks)] >>
    /\ UNCHANGED <<sk, msg, sig, signers, ms_sig, apk, ver, call, held>>

\* the MultisigSignature at hand: ms_sig, or the Default before any signing
CurrentMsSig == IF ms_sig = <<>> THEN Identity("G1") ELSE ms_sig[1]

\* the MultisigPublicKey at hand: the one aggregate returned, or, with no
\* aggregate call, the Default or one decoded without checks
MsKeys ==
    IF agg = <<>> THEN { Identity("G2") } \cup UncheckedKeys
    ELSE IF agg[1].out.tag = "Ok" THEN { agg[1].out.key }
    ELSE {}

\* MultisigPublicKey(key).verify(&ms_sig, &m)
VerifyMs(key, m) ==
    /\ sig = <<>> /\ apk = <<>> /\ ver = <<>>
    /\ key \in MsKeys
    /\ ver' = << [who |-> "MultisigPublicKey", key |-> key,
                  sig |-> CurrentMsSig, msg |-> m,
                  out |-> verify(key, CurrentMsSig, m)] >>
    /\ UNCHANGED <<sk, msg, sig, signers, ms_sig, agg, apk, call, held>>

\* the public keys of the signers of ms_sig, one entry for each signature
RECURSIVE SignerKeysFrom(_)
SignerKeysFrom(k) ==
    IF k > MaxSk THEN <<>>
    ELSE [i \in 1 .. signers[k] |-> PublicKeyFrom(k)] \o SignerKeysFrom(k + 1)

SignerKeys == SignerKeysFrom(0)

\* a caller sums the signers' public keys without weights, builds a
\* MultisigPublicKey from the sum with from_slice_unchecked, and calls
\* verify(&ms_sig, &m) on it
VerifyUnweighted(m) ==
    /\ sig = <<>> /\ agg = <<>> /\ apk = <<>> /\ ver = <<>>
    /\ ms_sig # <<>>
    /\ ver' = << [who |-> "Unweighted", key |-> sum_pk(SignerKeys),
                  sig |-> CurrentMsSig, msg |-> m,
                  out |-> verify(sum_pk(SignerKeys), CurrentMsSig, m)] >>
    /\ UNCHANGED <<sk, msg, sig, signers, ms_sig, agg, apk, call, held>>

\* let mut apk = APK::from(&pk)
ApkSeed(pk) ==
    /\ sig = <<>> /\ agg = <<>> /\ apk = <<>> /\ ver = <<>>
    /\ apk' = << [pt |-> ApkFrom(pk), keys |-> << pk >>, res |-> "None"] >>
    /\ UNCHANGED <<sk, msg, sig, signers, ms_sig, agg, ver, call, held>>

\* apk.aggregate(&pks); keys lists the keys folded in so far
ApkAdd(pks) ==
    /\ apk # <<>> /\ ver = <<>>
    /\ Len(apk[1].keys) + Len(pks) <= MaxKeys
    /\ LET r == ApkAggregate(apk[1].pt, pks)
       IN  apk' = << [pt |-> r.pt,
                      keys |-> IF r.res = "Ok" THEN apk[1].keys \o pks
                               ELSE apk[1].keys,
                      res |-> r.res] >>
    /\ UNCHANGED <<sk, msg, sig, signers, ms_sig, agg, ver, call, held>>

\* apk.verify(&ms_sig, &m): PublicKey::verify on the accumulator's point
VerifyApk(m) ==
    /\ apk # <<>> /\ ver = <<>>
    /\ ver' = << [who |-> "APK", key |-> apk[1].pt, sig |-> CurrentMsSig,
                  msg |-> m, out |-> verify(apk[1].pt, CurrentMsSig, m)] >>
    /\ UNCHANGED <<sk, msg, sig, signers, ms_sig, agg, apk, call, held>>

Next ==
    \/ Sign
    \/ \E key \in KeyInputs, s \in Sigs, m \in Msgs :
           VerifyPk(key, s, m)
    \/ \E k \in SecretKeys : SignMultisig(k)
    \/ \E pks \in KeyLists : Aggregate(pks)
    \/ \E key \in MsKeys, m \in Msgs : VerifyMs(key, m)
    \/ \E m \in Msgs : VerifyUnweighted(m)
    \/ \E pk \in KeyInputs : ApkSeed(pk)
    \/ \E pks \in KeyLists : ApkAdd(pks)
    \/ \E m \in Msgs : VerifyApk(m)

Spec == Init /\ [][Next]_vars

(* ------------------ the accumulator, call by call --------------------- *)

\* key aggregation reads neither the secret key nor the message: its runs
\* start from one choice of both
AggInit == Init /\ sk = 1 /\ msg = <<>>

\* apk.aggregate(&pks), kept with the accumulator before the call (self)
\* and the argument of the call (pks)
ApkCall(pks) ==
    /\ apk # <<>>
    /\ Len(apk[1].keys) + Len(pks) <= MaxApk
    /\ LET r == ApkAggregate(apk[1].pt, pks)
       IN  apk' = << [pt |-> r.pt,
                      keys |-> IF r.res = "Ok" THEN apk[1].keys \o pks
                               ELSE apk[1].keys,
                      res |-> r.res,
                      self |-> apk[1].pt, pks |-> pks] >>
    /\ UNCHANGED <<sk, msg, sig, signers, ms_sig, agg, ver, call, held>>

\* let mut apk = APK::default(): the derived Default wraps the Default of
\* PublicKey, the identity; no key has been folded in
ApkDefault ==
    /\ apk = <<>>
    /\ apk' = << [pt |-> Identity("G2"), keys |-> <<>>, res |-> "None"] >>
    /\ UNCHANGED <<sk, msg, sig, signers, ms_sig, agg, ver, call, held>>

ApkNext ==
    \/ \E pk \in KeyInputs : ApkSeed(pk)
    \/ ApkDefault
    \/ \E pks \in KeyLists : ApkCall(pks)

ApkSpec == AggInit /\ [][ApkNext]_vars

(* -------------- aggregation with the feature "parallel" --------------- *)

\* the key slices of the parallel runs: long enough to be split in more
\* than one way
ParLists == UNION { [1 .. n -> KeyInputs] : n \in 0 .. MaxPar }

\* MultisigPublicKey::aggregate(&pks) in both builds: out is the result of
\* the sequential build, par the results of the parallel one
AggregatePar(pks) ==
    /\ agg = <<>> /\ apk = <<>>
    /\ agg' = << [pks |-> pks, out |-> MultisigAggregate(pks),
                  par |-> MultisigAggregatePar(pks)] >>
    /\ UNCHANGED <<sk, msg, sig, signers, ms_sig, apk, ver, call, held>>

\* apk.aggregate(&pks) in both builds, on a fresh accumulator
ApkCallPar(pks) ==
    /\ apk # <<>>
    /\ apk[1].res = "None"
    /\ LET r == ApkAggregate(apk[1].pt, pks)
       IN  apk' = << [pt |-> r.pt,
                      keys |-> IF r.res = "Ok" THEN apk[1].keys \o pks
                               ELSE apk[1].keys,
                      res |-> r.res,
                      self |-> apk[1].pt, pks |-> pks,
                      par |-> ApkAggregatePar(apk[1].pt, pks)] >>
    /\ UNCHANGED <<sk, msg, sig, signers, ms_sig, agg, ver, call, held>>

ParNext ==
    \/ \E pks \in ParLists : AggregatePar(pks)
    \/ \E pk \in KeyInputs : ApkSeed(pk)
    \/ \E pks \in ParLists : ApkCallPar(pks)

ParSpec == AggInit /\ [][ParNext]_vars

(* ---------------------- what the checks read ------------------------- *)

\* the validity predicate of the data model, stated on the point itself:
\* on the curve, no torsion component, not the identity
ValidPoint(p) == p.on /\ p.c = 0 /\ p.s # 0

\* every signer of ms_sig has a valid public key
SignersValid ==
    \A k \in SecretKeys : signers[k] > 0 => ValidPoint(PublicKeyFrom(k))

\* the last verify call was pk.verify(&sk.sign(msg), m) for the key pk
SingleVerify(pk) ==
    /\ ver # <<>> /\ sig # <<>>
    /\ ver[1].who = "PublicKey"
    /\ ver[1].key = pk
    /\ ver[1].sig = sig[1]

\* the last verify call was MultisigPublicKey::aggregate(pks).verify(ms_sig, m)
BatchVerify ==
    /\ ver # <<>> /\ agg # <<>> /\ ms_sig # <<>>
    /\ ver[1].who = "MultisigPublicKey"
    /\ agg[1].out.tag = "Ok"

\* the last verify call was apk.verify(ms_sig, m) on the accumulator
ApkVerify ==
    /\ ver # <<>> /\ apk # <<>> /\ ms_sig # <<>>
    /\ ver[1].who = "APK"

\* the rearrangements of a list: seq read through a permutation of its
\* positions
Perms(n) ==
    { f \in [1 .. n -> 1 .. n] : \A i, j \in 1 .. n : f[i] = f[j] => i = j }

Permuted(seq, f) == [i \in 1 .. Len(seq) |-> seq[f[i]]]

Rearrangements(seq) == { Permuted(seq, f) : f \in Perms(Len(seq)) }

AllValidPoints(pks) == \A i \in 1 .. Len(pks) : ValidPoint(pks[i])

\* the accumulator a caller ends with who folds the keys of pks one call at
\* a time: APK::from(&pks[1]), then aggregate(&[pks[i]]) for each later key
RECURSIVE ApkFold(_, _)
ApkFold(pt, pks) ==
    IF pks = <<>> THEN pt
    ELSE ApkFold(ApkAggregate(pt, << Head(pks) >>).pt, Tail(pks))

\* the idealisation of hash_to_scalar on the inputs of the model: no
\* message hashes to zero, no two messages collide, and the weighted sums
\* of two key lists agree only for the same keys and are never the identity
ValidKeyLists ==
    { l \in KeyLists : l # <<>> /\ \A i \in 1 .. Len(l) : ValidPoint(l[i]) }

HashIdeal ==
    /\ \A m \in Msgs : hash_to_scalar(m) # 0
    /\ \A m1, m2 \in Msgs : m1 # m2 => hash_to_scalar(m1) # hash_to_scalar(m2)
    /\ \A l \in ValidKeyLists : ValidPoint(sum_pk_t(l))
    /\ \A l1, l2 \in ValidKeyLists :
           sum_pk_t(l1) = sum_pk_t(l2)
               => \A x \in KeyInputs : CountIn(l1, x) = CountIn(l2, x)

(* ------------------- the life of a SecretKey -------------------------- *)

\* sk.zeroize()
Zeroize ==
    /\ held.gone = "no"
    /\ held.zeroized < MaxZeroize
    /\ held' = [held EXCEPT !.mem = zeroize(@), !.zeroized = @ + 1]
    /\ UNCHANGED <<sk, msg, sig, signers, ms_sig, agg, apk, ver, call>>

\* the ways a SecretKey goes out of scope
ExitPaths == {"return", "error", "unwind"}

\* the SecretKey is destroyed on the exit path
Drop(path) ==
    /\ held.gone = "no"
    /\ held' = [held EXCEPT !.mem = drop_in_place(@), !.gone = path]
    /\ UNCHANGED <<sk, msg, sig, signers, ms_sig, agg, apk, ver, call>>

KeyNext ==
    \/ Zeroize
    \/ \E path \in ExitPaths : Drop(path)

KeySpec == Init /\ [][KeyNext]_vars

(* ------------------- encoding and decoding calls ---------------------- *)

Types ==
    {"SecretKey", "PublicKey", "MultisigPublicKey", "Signature",
     "MultisigSignature"}

GroupOf(ty) ==
    IF ty \in {"PublicKey", "MultisigPublicKey"} THEN "G2" ELSE "G1"

\* #[derive(Default)]: the Default of the wrapped G1Affine or G2Affine,
\* the identity, and the zero scalar for SecretKey
Default(ty) ==
    IF ty = "SecretKey" THEN SecretKeyDefault ELSE Identity(GroupOf(ty))

\* the validity predicate on the point a value of type ty wraps: is_valid of
\* public.rs for the key types, is_valid of signatures.rs for the others
IsValid(ty, p) ==
    IF GroupOf(ty) = "G2" THEN is_valid(p) ELSE is_valid_sig(p)

\* Serializable::SIZE
Size(ty) == IF ty = "SecretKey" THEN ScalarSize ELSE PointSize

\* Serializable::to_bytes
to_bytes(ty, v) == IF ty = "SecretKey" THEN ScalarToBytes(v) ELSE ToBytes(v)

\* Serializable::from_bytes on an array of Size(ty) bytes
from_bytes(ty, bytes) ==
    IF ty = "SecretKey" THEN ScalarFromBytes(bytes)
    ELSE PointFromBytes(GroupOf(ty), bytes)

\* the base-58 text form; a text is the list of its characters, each the
\* index of the character in the alphabet, NoChar for one outside of it
Base == 58

NoChar == 58

AllZero(bytes) == \A i \in 1 .. Len(bytes) : bytes[i] = 0

RECURSIVE LeadingZeros(_)
LeadingZeros(seq) ==
    IF seq = <<>> \/ Head(seq) # 0 THEN 0
    ELSE 1 + LeadingZeros(Tail(seq))

\* the big-endian number bytes divided by 58: quotient q and remainder r
RECURSIVE DivMod58(_, _)
DivMod58(bytes, rem) ==
    IF bytes = <<>> THEN [q |-> <<>>, r |-> rem]
    ELSE LET cur == rem * 256 + Head(bytes)
             rest == DivMod58(Tail(bytes), cur % Base)
         IN  [q |-> << cur \div Base >> \o rest.q, r |-> rest.r]

\* the base-58 digits of the big-endian number bytes, most significant
\* first, none for zero
RECURSIVE Digits58(_)
Digits58(bytes) ==
    IF AllZero(bytes) THEN <<>>
    ELSE LET dm == DivMod58(bytes, 0)
         IN  Digits58(dm.q) \o << dm.r >>

\* bs58::encode: one leading character of index 0 for each leading zero
\* byte, then the digits of the number
bs58_encode(bytes) ==
    [i \in 1 .. LeadingZeros(bytes) |-> 0] \o Digits58(bytes)

\* the big-endian number bytes times 58 plus carry
RECURSIVE MulAdd58(_, _)
MulAdd58(bytes, carry) ==
    IF bytes = <<>> THEN (IF carry = 0 THEN <<>> ELSE << carry >>)
    ELSE LET n == Len(bytes)
             v == bytes[n] * Base + carry
         IN  MulAdd58(SubSeq(bytes, 1, n - 1), v \div 256) \o << v % 256 >>

RECURSIVE Bytes58(_, _)
Bytes58(acc, digits) ==
    IF digits = <<>> THEN acc
    ELSE Bytes58(MulAdd58(acc, Head(digits)), Tail(digits))

\* bs58::decode(..).into_vec(): an error for a character outside the
\* alphabet; else a zero byte for each leading character of index 0, then
\* the bytes of the number
bs58_decode(text) ==
    IF \E i \in 1 .. Len(text) : text[i] \notin 0 .. Base - 1
    THEN [tag |-> "Err", err |-> "InvalidCharacter"]
    ELSE LET z == LeadingZeros(text)
         IN  [tag |-> "Ok",
              val |-> [i \in 1 .. z |-> 0]
                          \o Bytes58(<<>>, SubSeq(text, z + 1, Len(text)))]

\* a deserialize that cuts or pads the decoded bytes to the size
deserialize_resizing(ty, text) ==
    LET d == bs58_decode(text)
    IN  IF d.tag = "Err" THEN [tag |-> "Err", err |-> "custom"]
        ELSE LET r == from_bytes(ty, [i \in 1 .. Size(ty) |->
                          IF i <= Len(d.val) THEN d.val[i] ELSE 0])
             IN  IF r.tag = "Err" THEN [tag |-> "Err", err |-> "custom"]
                 ELSE r

\* Deserialize::deserialize: base-58 decode the string, convert the bytes
\* to an array of SIZE bytes, decode it with the checked from_bytes
deserialize(ty, text) ==
    LET d == bs58_decode(text)
    IN  IF d.tag = "Err" THEN [tag |-> "Err", err |-> "custom"]
        ELSE IF Len(d.val) # Size(ty)
        THEN [tag |-> "Err", err |-> "invalid_length"]
        ELSE LET r == from_bytes(ty, d.val)
             IN  IF r.tag = "Err" THEN [tag |-> "Err", err |-> "custom"]
                 ELSE r

\* the sign_multisig signatures of the signers of the model
MultisigSigs ==
    { sign_multisig(k, PublicKeyFrom(k), m) : k \in SecretKeys, m \in Msgs }

\* the values the constructors of each type build: SecretKey::from of a
\* scalar, PublicKey::from(&sk), MultisigPublicKey::aggregate, sign,
\* sign_multisig and MultisigSignature::aggregate, and Default
Constructed(ty) ==
    CASE ty = "SecretKey" -> SecretKeys \cup { Q - 1 }
      [] ty = "PublicKey" -> { PublicKeyFrom(k) : k \in SecretKeys }
      [] ty = "MultisigPublicKey" ->
             { MultisigAggregate(l).key : l \in ValidKeyLists }
                 \cup { Identity("G2") }
      [] ty = "Signature" ->
             { sign(k, m) : k \in SecretKeys, m \in Msgs }
                 \cup { Identity("G1") }
      [] ty = "MultisigSignature" ->
             MultisigSigs
                 \cup { SigAggregate(a, << b >>) : a, b \in MultisigSigs }

\* T::from_bytes(&v.to_bytes()) for a value v of the type ty
RoundTrip(ty, v) ==
    /\ call = <<>>
    /\ call' = << [op |-> "round_trip", ty |-> ty, val |-> v,
                   bytes |-> to_bytes(ty, v),
                   out |-> from_bytes(ty, to_bytes(ty, v))] >>
    /\ UNCHANGED <<sk, msg, sig, signers, ms_sig, agg, apk, ver, held>>

\* the types that are ordered
OrdTypes == Types \ {"SecretKey"}

\* values of a point type to compare: keys and signatures of the signers
\* over msg, aggregates of one key and of all valid keys, the Default and
\* points decoded without checks
OrdValues(ty) ==
    CASE ty = "PublicKey" -> KeyInputs
      [] ty = "MultisigPublicKey" ->
             { MultisigAggregate(<< PublicKeyFrom(k) >>).key :
                   k \in SecretKeys \ {0} }
                 \cup { MultisigAggregate(
                            [i \in 1 .. MaxKeys |-> PublicKeyFrom(1)]).key }
                 \cup { Identity("G2") } \cup UncheckedKeys
      [] ty = "Signature" ->
             { sign(k, msg) : k \in SecretKeys } \cup InvalidSigs
      [] ty = "MultisigSignature" ->
             { sign_multisig(k, PublicKeyFrom(k), msg) : k \in SecretKeys }
                 \cup InvalidSigs

\* a.cmp(&b) and the other comparisons among a, b and c of one type, and a
\* BTreeSet that a, b, c and once more a are inserted into
Compare(ty, a, b, c) ==
    /\ call = <<>>
    /\ LET s1 == BTreeInsert(<<>>, a).set
           s2 == BTreeInsert(s1, b).set
           s3 == BTreeInsert(s2, c).set
       IN  call' = << [op |-> "cmp", ty |-> ty, a |-> a, b |-> b, c |-> c,
                       aa |-> cmp(a, a), ab |-> cmp(a, b), ba |-> cmp(b, a),
                       bc |-> cmp(b, c), ac |-> cmp(a, c),
                       pab |-> partial_cmp(a, b),
                       set |-> BTreeInsert(s3, a).set,
                       again |-> BTreeInsert(s3, a).inserted] >>
    /\ UNCHANGED <<sk, msg, sig, signers, ms_sig, agg, apk, ver, held>>

\* byte strings of the checked size: the encodings of values of the type
\* (for a point type also of points decoded without checks), one without
\* the compression flag, and a scalar that is not below the modulus
SizedBytes(ty) ==
    IF ty = "SecretKey"
    THEN { ScalarToBytes(k) : k \in SecretKeys \cup { Q - 1, Q } }
    ELSE { ToBytes(v) : v \in OrdValues(ty) } \cup { << 0, 0, 0, 1 >> }

\* byte strings one byte longer and one byte shorter than the checked size
LongBytes(ty) ==
    { b \o << x >> : b \in SizedBytes(ty), x \in 0 .. MaxByte }
        \cup { << 0 >> \o b : b \in SizedBytes(ty) }

ShortBytes(ty) ==
    { Tail(b) : b \in SizedBytes(ty) }
        \cup { SubSeq(b, 1, Len(b) - 1) : b \in SizedBytes(ty) }

\* a text with a character outside the base-58 alphabet
WrongText == << 30, NoChar, 12 >>

\* the texts handed to deserialize
Texts(ty) ==
    { bs58_encode(b) :
          b \in SizedBytes(ty) \cup LongBytes(ty) \cup ShortBytes(ty) }
        \cup { WrongText }

\* serde: T::deserialize on a string text
Deserialize(ty) ==
    /\ call = <<>>
    /\ \E text \in Texts(ty) :
           call' = << [op |-> "deserialize", ty |-> ty, text |-> text,
                       out |-> deserialize(ty, text)] >>
    /\ UNCHANGED <<sk, msg, sig, signers, ms_sig, agg, apk, ver, held>>

\* signatures to aggregate: the sign_multisig signatures over msg, the
\* Default and points decoded without checks
SigValues == OrdValues("MultisigSignature")

SigLists == UNION { [1 .. n -> SigValues] : n \in 0 .. MaxKeys }

\* the result of folding sigs into s one aggregate call per signature
RECURSIVE AggregateEach(_, _)
AggregateEach(s, sigs) ==
    IF sigs = <<>> THEN s
    ELSE AggregateEach(SigAggregateCall(s, << Head(sigs) >>).ret, Tail(sigs))

\* let out = s.aggregate(&sigs) for a slice sigs; each is what a caller gets who passes the
\* signatures one call at a time
AggregateSigs(s) ==
    /\ call = <<>>
    /\ \E sigs \in SigLists :
           LET r == SigAggregateCall(s, sigs)
           IN  call' = << [op |-> "aggregate", self |-> s, sigs |-> sigs,
                           out |-> r.ret, self_after |-> r.self,
                           sigs_after |-> r.sigs,
                           each |-> AggregateEach(s, sigs)] >>
    /\ UNCHANGED <<sk, msg, sig, signers, ms_sig, agg, apk, ver, held>>

LibNext ==
    \/ \E ty \in Types : \E v \in Constructed(ty) : RoundTrip(ty, v)
    \/ \E s \in SigValues : AggregateSigs(s)
    \/ \E ty \in Types : Deserialize(ty)
    \/ \E ty \in OrdTypes : \E a, b, c \in OrdValues(ty) :
           Compare(ty, a, b, c)

LibSpec == Init /\ [][LibNext]_vars

(* ------------- sign_multisig with any public key ---------------------- *)

\* let ms_sig = sk.sign_multisig(&pk, &msg) with a public key pk of the
\* caller's choice; call keeps the key that was passed
SignMultisigWith(pk) ==
    /\ sig = <<>> /\ ms_sig = <<>> /\ agg = <<>> /\ apk = <<>> /\ ver = <<>>
    /\ call = <<>>
    /\ ms_sig' = << sign_multisig(sk, pk, msg) >>
    /\ call' = << [op |-> "sign_multisig", pk |-> pk] >>
    /\ UNCHANGED <<sk, msg, sig, signers, agg, apk, ver, held>>

WithNext ==
    \/ \E pk \in KeyInputs : SignMultisigWith(pk)
    \/ \E pks \in KeyLists : Aggregate(pks)
    \/ \E key \in MsKeys, m \in Msgs : VerifyMs(key, m)

WithSpec == Init /\ [][WithNext]_vars

\* the last verify call was
\* MultisigPublicKey::aggregate(&[PublicKey::from(&sk)]).verify(&ms_sig, m)
\* on the ms_sig that sk.sign_multisig(&pk, msg) returned
OwnKeyVerify ==
    /\ call # <<>> /\ call[1].op = "sign_multisig"
    /\ agg # <<>> /\ agg[1].pks = << PublicKeyFrom(sk) >>
    /\ ver # <<>> /\ ver[1].who = "MultisigPublicKey"
    /\ ver[1].sig = ms_sig[1]

(* ------------------------------ claims -------------------------------- *)

\* C1 (as stated): for every secret key sk and every message m,
\* PublicKey::from(&sk).verify(&sk.sign(m), m) returns Ok(()).
C1_AnyKeyVerifies ==
    (SingleVerify(PublicKeyFrom(sk)) /\ ver[1].msg = msg)
        => ver[1].out.res = "Ok"

\* C1 (amended): for every secret key sk other than zero and every message
\* m, PublicKey::from(&sk).verify(&sk.sign(m), m) returns Ok(()).
C1_NonzeroKeyVerifies ==
    (sk # 0 /\ SingleVerify(PublicKeyFrom(sk)) /\ ver[1].msg = msg)
        => ver[1].out.res = "Ok"

C1_Witness ==
    /\ sk # 0 /\ SingleVerify(PublicKeyFrom(sk)) /\ ver[1].msg = msg
    /\ ver[1].out.res = "Ok"

\* C2: a signature over m does not verify against a different message m2,
\* neither the single signature under the signer's public key nor the
\* aggregate of the sign_multisig signatures under the aggregate of the
\* signers' keys: verify returns Err.
C2_OtherMessageFails ==
    /\ (SingleVerify(PublicKeyFrom(sk)) /\ ver[1].msg # msg)
           => ver[1].out.res # "Ok"
    /\ (BatchVerify /\ KeysOfSigners(agg[1].pks) /\ ver[1].msg # msg)
           => ver[1].out.res # "Ok"

C2_Witness ==
    /\ BatchVerify /\ KeysOfSigners(agg[1].pks) /\ NumSigners = MaxKeys
    /\ ver[1].msg # msg
    /\ ver[1].out.res = "InvalidSignature"

\* C3: a signature by sk over m does not verify under the public key of a
\* secret key sk2 whose public key differs from the one of sk.
C3_OtherKeyFails ==
    \A sk2 \in SecretKeys :
        (/\ PublicKeyFrom(sk2) # PublicKeyFrom(sk)
         /\ SingleVerify(PublicKeyFrom(sk2))
         /\ ver[1].msg = msg)
            => ver[1].out.res # "Ok"

C3_Witness ==
    \E sk2 \in SecretKeys :
        /\ sk # 0 /\ sk2 # 0 /\ PublicKeyFrom(sk2) # PublicKeyFrom(sk)
        /\ SingleVerify(PublicKeyFrom(sk2)) /\ ver[1].msg = msg
        /\ ver[1].out.res = "InvalidSignature"

\* C4: the public key of the zero secret key is the identity and is not
\* valid; verifying the signature the zero key made over m (sign has no
\* failure outcome) under that key and m returns InvalidPoint.
C4_ZeroKeyInvalidPoint ==
    sk = 0 =>
        /\ PublicKeyFrom(sk) = Identity("G2")
        /\ ~is_valid(PublicKeyFrom(sk))
        /\ (SingleVerify(PublicKeyFrom(sk)) /\ ver[1].msg = msg)
               => ver[1].out.res = "InvalidPoint"

C4_Witness ==
    /\ sk = 0 /\ SingleVerify(PublicKeyFrom(sk)) /\ ver[1].msg = msg
    /\ ver[1].out.res = "InvalidPoint"

\* C5: whenever the key point or the signature point of a verify call is
\* not valid (off the curve, with a torsion component, or the identity),
\* the result is InvalidPoint and no pairing has been evaluated.
C5_InvalidPointFirst ==
    (ver # <<>> /\ (~ValidPoint(ver[1].key) \/ ~ValidPoint(ver[1].sig)))
        => (ver[1].out.res = "InvalidPoint" /\ ver[1].out.pairings = 0)

C5_Witness ==
    /\ ver # <<>> /\ ver[1].who = "MultisigPublicKey"
    /\ ~ValidPoint(ver[1].key) /\ ValidPoint(ver[1].sig)
    /\ ver[1].out.res = "InvalidPoint"

\* C6: with a valid key and a valid signature, verify returns Ok exactly
\* when e(sig, g2) * e(-H0(msg), key) is the identity of the target group,
\* and InvalidSignature otherwise; no verify call ends with another error
\* than InvalidPoint or InvalidSignature.
C6_PairingDecides ==
    ver # <<>> =>
        /\ ver[1].out.res \in {"Ok", "InvalidPoint", "InvalidSignature"}
        /\ (ValidPoint(ver[1].key) /\ ValidPoint(ver[1].sig)) =>
               LET e == GtMul(pairing(ver[1].sig, G2Generator),
                              pairing(PointNeg(h0(ver[1].msg)), ver[1].key))
               IN  /\ ver[1].out.res = "Ok" <=> e = GtIdentity
                   /\ ver[1].out.res # "Ok"
                          => ver[1].out.res = "InvalidSignature"

C6_Witness ==
    /\ ver # <<>> /\ ver[1].who = "PublicKey"
    /\ ValidPoint(ver[1].key) /\ ValidPoint(ver[1].sig)
    /\ ver[1].out.res = "InvalidSignature"

\* C7: MultisigPublicKey::aggregate of an empty slice returns
\* Err(NoKeysProvided).
C7_EmptySliceRejected ==
    (agg # <<>> /\ agg[1].pks = <<>>)
        => (agg[1].out.tag = "Err" /\ agg[1].out.err = "NoKeysProvided")

C7_Witness ==
    /\ agg # <<>> /\ agg[1].pks = <<>>
    /\ agg[1].out.tag = "Err" /\ agg[1].out.err = "NoKeysProvided"

\* C8: MultisigPublicKey::aggregate of a non-empty slice that holds an
\* invalid key, at any position and beside any other keys, returns
\* Err(InvalidPoint).
C8_InvalidKeyRejected ==
    (agg # <<>> /\ \E i \in 1 .. Len(agg[1].pks) : ~ValidPoint(agg[1].pks[i]))
        => (agg[1].out.tag = "Err" /\ agg[1].out.err = "InvalidPoint")

C8_Witness ==
    /\ agg # <<>> /\ Len(agg[1].pks) = MaxKeys
    /\ ValidPoint(agg[1].pks[1])
    /\ ~ValidPoint(agg[1].pks[MaxKeys])
    /\ agg[1].out.tag = "Err" /\ agg[1].out.err = "InvalidPoint"

\* C9: for signers with valid keys and one message, the aggregate of their
\* sign_multisig signatures verifies under the aggregate of their public
\* keys, built by MultisigPublicKey::aggregate or by the APK accumulator.
C9_AggregateVerifies ==
    /\ (BatchVerify /\ SignersValid /\ KeysOfSigners(agg[1].pks)
            /\ ver[1].msg = msg)
           => ver[1].out.res = "Ok"
    /\ (ApkVerify /\ SignersValid /\ KeysOfSigners(apk[1].keys)
            /\ ver[1].msg = msg)
           => ver[1].out.res = "Ok"

C9_Witness ==
    /\ ApkVerify /\ SignersValid /\ KeysOfSigners(apk[1].keys)
    /\ NumSigners = MaxKeys /\ ver[1].msg = msg
    /\ ver[1].out.res = "Ok"

\* C10 (as stated): the aggregate signature of a set of signers over m
\* does not verify under the aggregate key of a different key set.
C10_OtherKeySetFails ==
    (BatchVerify /\ ~KeysOfSigners(agg[1].pks) /\ ver[1].msg = msg)
        => ver[1].out.res # "Ok"

\* C10 (amended): the aggregate signature of a set of signers with valid
\* keys over m does not verify under the aggregate key of a different key
\* set.
C10_OtherKeySetFailsValidSigners ==
    (BatchVerify /\ SignersValid /\ ~KeysOfSigners(agg[1].pks)
         /\ ver[1].msg = msg)
        => ver[1].out.res # "Ok"

C10_Witness ==
    /\ BatchVerify /\ SignersValid /\ NumSigners = MaxKeys
    /\ Len(agg[1].pks) = 1 /\ signers[sk] = 1
    /\ agg[1].pks[1] = PublicKeyFrom(sk)
    /\ ver[1].msg = msg
    /\ ver[1].out.res = "InvalidSignature"

\* C11: the plain unweighted sum of the signers' public keys, used as the
\* aggregate key, does not verify the aggregate of their sign_multisig
\* signatures over the same message: verify does not return Ok.
C11_UnweightedSumFails ==
    (ver # <<>> /\ ver[1].who = "Unweighted" /\ ver[1].msg = msg)
        => ver[1].out.res # "Ok"

C11_Witness ==
    /\ ver # <<>> /\ ver[1].who = "Unweighted" /\ ver[1].msg = msg
    /\ SignersValid /\ NumSigners = MaxKeys
    /\ ValidPoint(ver[1].key)
    /\ ver[1].out.res = "InvalidSignature"

\* C12: for every list of valid public keys and every permutation of it,
\* aggregation of the permuted list, by MultisigPublicKey::aggregate or
\* through the APK accumulator, returns an aggregate key with the same
\* checked byte encoding as the one of the original list.
C12_OrderIndependent ==
    /\ (agg # <<>> /\ agg[1].pks # <<>> /\ AllValidPoints(agg[1].pks)) =>
           \A q \in Rearrangements(agg[1].pks) :
               /\ agg[1].out.tag = "Ok"
               /\ MultisigAggregate(q).tag = "Ok"
               /\ ToBytes(MultisigAggregate(q).key) = ToBytes(agg[1].out.key)
    /\ (apk # <<>> /\ AllValidPoints(apk[1].keys)) =>
           \A q \in Rearrangements(apk[1].keys) :
               ToBytes(ApkFold(ApkFrom(Head(q)), Tail(q))) = ToBytes(apk[1].pt)

C12_Witness ==
    /\ agg # <<>> /\ Len(agg[1].pks) = MaxKeys
    /\ AllValidPoints(agg[1].pks)
    /\ agg[1].pks[1] # agg[1].pks[MaxKeys]
    /\ agg[1].out.tag = "Ok"
    /\ ToBytes(MultisigAggregate(Permuted(agg[1].pks,
                    [i \in 1 .. MaxKeys |-> MaxKeys + 1 - i])).key)
           = ToBytes(agg[1].out.key)

C14_ApkAggregateErrors ==
    (apk # <<>> /\ apk[1].res # "None") =>
        /\ apk[1].res \in {"Ok", "InvalidPoint"}
        /\ apk[1].res = "InvalidPoint"
               <=> (~ValidPoint(apk[1].self) \/ ~AllValidPoints(apk[1].pks))
        /\ (apk[1].pks = <<>> /\ ValidPoint(apk[1].self))
               => apk[1].res = "Ok"

C14_Witness ==
    /\ apk # <<>> /\ apk[1].res = "Ok"
    /\ apk[1].pks = <<>> /\ ValidPoint(apk[1].self)
    /\ apk[1].pt = apk[1].self

\* C15: every aggregate public key a successful aggregation returns, from
\* MultisigPublicKey::aggregate or in the APK accumulator after an Ok
\* aggregate call, is a valid point: on the curve, torsion-free and not
\* the identity.
C15_AggregateKeyValid ==
    /\ (agg # <<>> /\ agg[1].out.tag = "Ok")
           => (ValidPoint(agg[1].out.key) /\ is_valid(agg[1].out.key))
    /\ (apk # <<>> /\ apk[1].res = "Ok")
           => (ValidPoint(apk[1].pt) /\ is_valid(apk[1].pt))

C15_Witness ==
    /\ agg # <<>> /\ agg[1].out.tag = "Ok" /\ Len(agg[1].pks) = MaxKeys
    /\ agg[1].pks[1] = agg[1].pks[MaxKeys]
    /\ is_on_curve(agg[1].out.key) /\ is_torsion_free(agg[1].out.key)
    /\ ~is_identity(agg[1].out.key)

\* C16: the checked encoding round-trips: for every validly constructed
\* SecretKey, PublicKey, MultisigPublicKey, Signature and MultisigSignature
\* v, from_bytes(&v.to_bytes()) returns Ok(v).
C16_RoundTrip ==
    (call # <<>> /\ call[1].op = "round_trip") =>
        /\ Len(call[1].bytes) = Size(call[1].ty)
        /\ call[1].out = [tag |-> "Ok", val |-> call[1].val]

C16_Witness ==
    /\ call # <<>> /\ call[1].op = "round_trip"
    /\ call[1].ty = "MultisigPublicKey"
    /\ ValidPoint(call[1].val)
    /\ call[1].out.tag = "Ok" /\ call[1].out.val = call[1].val

\* C17: after an explicit zeroize() a SecretKey, whatever scalar it held,
\* equals SecretKey::default() (the zero scalar), and it stays so under
\* further zeroize() calls.
C17_ZeroizeGivesDefault ==
    held.zeroized > 0 => held.mem = SecretKeyDefault

C17_Witness ==
    /\ sk # 0 /\ held.zeroized = MaxZeroize /\ held.gone = "no"
    /\ held.mem = SecretKeyDefault

C19_TotalOrder ==
    (call # <<>> /\ call[1].op = "cmp") =>
        LET r == call[1]
        IN  /\ r.aa = "Equal"
            /\ r.ab = Reverse(r.ba)
            /\ (r.ab # "Greater" /\ r.bc # "Greater") => r.ac # "Greater"
            /\ r.pab = << r.ab >>
            /\ r.ab = "Equal" <=> r.a = r.b
            /\ r.again = FALSE
            /\ Len(r.set) = Cardinality({r.a, r.b, r.c})
            /\ \A x \in {r.a, r.b, r.c} :
                   \E i \in 1 .. Len(r.set) : r.set[i] = x

C19_Witness ==
    /\ call # <<>> /\ call[1].op = "cmp" /\ call[1].ty = "Signature"
    /\ call[1].ab = "Greater" /\ call[1].bc = "Less"
    /\ call[1].a # call[1].c
    /\ Len(call[1].set) = 3 /\ call[1].again = FALSE

\* C20: for each of the five types, text deserialization returns an error
\* whenever the bytes under the base-58 text are shorter or longer than the
\* checked size of the type, and whenever they have that size but the
\* checked binary decode of them fails.
C20_DeserializeRejects ==
    (call # <<>> /\ call[1].op = "deserialize") =>
        \A b \in SizedBytes(call[1].ty) \cup LongBytes(call[1].ty)
                   \cup ShortBytes(call[1].ty) :
            call[1].text = bs58_encode(b) =>
                /\ Len(b) # Size(call[1].ty) => call[1].out.tag = "Err"
                /\ (Len(b) = Size(call[1].ty)
                        /\ from_bytes(call[1].ty, b).tag = "Err")
                       => call[1].out.tag = "Err"

C20_Witness ==
    /\ call # <<>> /\ call[1].op = "deserialize"
    /\ call[1].ty = "PublicKey"
    /\ call[1].text = bs58_encode(ToBytes(PublicKeyFrom(1)) \o << 0 >>)
    /\ call[1].out = [tag |-> "Err", err |-> "invalid_length"]

\* C21 (as stated): sk.sign_multisig(&pk, m) with a pk that is not the
\* public key of sk never fails, and the value it returns does not verify
\* under MultisigPublicKey::aggregate(&[PublicKey::from(&sk)]) and m.
C21_OtherKeyDoesNotVerify ==
    /\ (call # <<>> /\ call[1].op = "sign_multisig")
           => (ms_sig # <<>> /\ ms_sig[1].grp = "G1")
    /\ (OwnKeyVerify /\ call[1].pk # PublicKeyFrom(sk) /\ ver[1].msg = msg)
           => ver[1].out.res # "Ok"

\* C21 (amended): sk.sign_multisig(&pk, m) with a pk whose checked bytes
\* differ from those of the public key of sk never fails, and the value it
\* returns does not verify under
\* MultisigPublicKey::aggregate(&[PublicKey::from(&sk)]) and m.
C21_OtherKeyBytesDoNotVerify ==
    /\ (call # <<>> /\ call[1].op = "sign_multisig")
           => (ms_sig # <<>> /\ ms_sig[1].grp = "G1")
    /\ (OwnKeyVerify /\ ToBytes(call[1].pk) # ToBytes(PublicKeyFrom(sk))
            /\ ver[1].msg = msg)
           => ver[1].out.res # "Ok"

C21_Witness ==
    /\ OwnKeyVerify /\ ver[1].msg = msg
    /\ ValidPoint(call[1].pk)
    /\ ToBytes(call[1].pk) # ToBytes(PublicKeyFrom(sk))
    /\ ver[1].out.res = "InvalidSignature"

\* the discrete logarithm of the sum over pks of pk * H1(pk), each distinct
\* key counted as often as it occurs in pks
WeightedLog(pks) ==
    LET keys == { pks[i] : i \in 1 .. Len(pks) }
    IN  SumOver([x \in keys |->
                    (CountIn(pks, x) * ((x.s * h1(x)) % Q)) % Q], keys) % Q

\* C22: for a non-empty slice of valid public keys,
\* MultisigPublicKey::aggregate returns Ok with the sum over the slice of
\* pk_i * H1(pk_i), each element counted once per occurrence, and pk_t() is
\* that term pk * H1(pk).
C22_AggregateIsWeightedSum ==
    (agg # <<>> /\ agg[1].pks # <<>> /\ AllValidPoints(agg[1].pks)) =>
        /\ agg[1].out.tag = "Ok"
        /\ agg[1].out.key =
               Point("G2", WeightedLog(agg[1].pks), 0, TRUE)
        /\ \A i \in 1 .. Len(agg[1].pks) :
               pk_t(agg[1].pks[i]) =
                   Point("G2", (agg[1].pks[i].s * h1(agg[1].pks[i])) % Q,
                         0, TRUE)

C22_Witness ==
    /\ agg # <<>> /\ Len(agg[1].pks) = MaxKeys
    /\ AllValidPoints(agg[1].pks)
    /\ agg[1].pks[1] = agg[1].pks[MaxKeys]
    /\ agg[1].out.tag = "Ok"
    /\ agg[1].out.key = Point("G2", WeightedLog(agg[1].pks), 0, TRUE)

\* the point H0(m) * k * H1(pk), by its discrete logarithm
SignedLog(k, pk, m) ==
    (((hash_to_scalar(m) * k) % Q) * hash_to_scalar(ToBytes(pk))) % Q

\* C23: for every secret key sk, public key pk and message m,
\* sk.sign_multisig(&pk, m) holds the point of sk.sign(m) multiplied by
\* H1(pk), that is H0(m) * sk * H1(pk).
C23_SignMultisigIsWeightedSign ==
    (call # <<>> /\ call[1].op = "sign_multisig") =>
        /\ ms_sig # <<>>
        /\ ms_sig[1] = Point("G1", SignedLog(sk, call[1].pk, msg), 0, TRUE)
        /\ ms_sig[1].s = (sign(sk, msg).s * h1(call[1].pk)) % Q

C23_Witness ==
    /\ call # <<>> /\ call[1].op = "sign_multisig"
    /\ sk # 0 /\ call[1].pk # PublicKeyFrom(sk) /\ msg # <<>>
    /\ ValidPoint(ms_sig[1])
    /\ ms_sig[1].s = SignedLog(sk, call[1].pk, msg)

\* the sum of one coordinate of the points of a list
CoordSum(sigs, coord(_)) ==
    SumOver([i \in 1 .. Len(sigs) |-> coord(sigs[i])], 1 .. Len(sigs))

LogOf(p) == p.s

TorsionOf(p) == p.c

\* C24: s.aggregate(others) never fails and returns a new value whose
\* point is the point of s plus the sum of the points of others; s and
\* every element of others are left unchanged.
C24_SigAggregateFrame ==
    (call # <<>> /\ call[1].op = "aggregate") =>
        LET r == call[1]
        IN  /\ r.out =
                   Point("G1",
                         (r.self.s + CoordSum(r.sigs, LogOf)) % Q,
                         (r.self.c + CoordSum(r.sigs, TorsionOf)) % Cofactor,
                         r.self.on /\ \A i \in 1 .. Len(r.sigs) : r.sigs[i].on)
            /\ r.self_after = r.self
            /\ r.sigs_after = r.sigs

C24_Witness ==
    /\ call # <<>> /\ call[1].op = "aggregate"
    /\ Len(call[1].sigs) = MaxKeys
    /\ ValidPoint(call[1].self) /\ AllValidPoints(call[1].sigs)
    /\ call[1].out # call[1].self
    /\ call[1].self_after = call[1].self

\* C25: the outcome of public-key aggregation, an error or a point, is the
\* same in the sequential build and in the parallel one, however the slice
\* is split into sub-slices and in whatever order the partial results are
\* reduced: the parallel build has exactly one possible result, the result
\* of the sequential fold. This holds of MultisigPublicKey::aggregate and of
\* APK::aggregate.
C25_ParallelEqualsSequential ==
    /\ agg # <<>> => agg[1].par = { agg[1].out }
    /\ (apk # <<>> /\ apk[1].res # "None")
           => apk[1].par = { [res |-> apk[1].res, pt |-> apk[1].pt] }

\* a slice of full length with an invalid key in its last place only, so
\* that one sub-slice of a split is all valid and the other is not
C25_Witness ==
    /\ agg # <<>>
    /\ Len(agg[1].pks) = MaxPar
    /\ \A i \in 1 .. MaxPar - 1 : ValidPoint(agg[1].pks[i])
    /\ ~ValidPoint(agg[1].pks[MaxPar])
    /\ agg[1].out = [tag |-> "Err", err |-> "InvalidPoint"]

\* C26: after any sequence of aggregate calls on an accumulator seeded by
\* APK::from(&pk_0), the point of the accumulator is pk_0 * H1(pk_0) plus
\* the sum of pk * H1(pk) over the keys of the calls that returned Ok (keys
\* lists pk_0 and those keys); a call that returns Err leaves the
\* accumulator as it was, and so does a successful call with an empty slice.
C26_AccumulatorIsWeightedSum ==
    (apk # <<>> /\ apk[1].keys # <<>>) =>
        LET a == apk[1]
            pk_0 == a.keys[1]
            rest == Tail(a.keys)
        IN  /\ AllValidPoints(rest)
            /\ a.pt = Point("G2",
                            (pk_0.s * h1(pk_0) + WeightedLog(rest)) % Q,
                            (pk_0.c * h1(pk_0)) % Cofactor,
                            pk_0.on)
            /\ a.res = "InvalidPoint" => a.pt = a.self
            /\ (a.res = "Ok" /\ a.pks = <<>>) => a.pt = a.self

\* an accumulator that took in keys over successful calls and then saw a
\* call fail
C26_Witness ==
    /\ apk # <<>> /\ Len(apk[1].keys) > 1
    /\ apk[1].res = "InvalidPoint" /\ apk[1].pks # <<>>
    /\ ValidPoint(apk[1].pt) /\ apk[1].pt = apk[1].self
    /\ apk[1].pt # ApkFrom(apk[1].keys[1])

\* C27: once the point of the accumulator is invalid, as it is when the
\* accumulator is seeded from the public key of the zero secret key or
\* built by Default, every later aggregate call, whatever its slice, the
\* empty one included, returns Err(InvalidPoint) and leaves the point as it
\* is: an invalid accumulator stays invalid and never changes again.
C27_InvalidAccumulatorIsStuck ==
    [][ (apk # <<>> /\ ~ValidPoint(apk[1].pt))
            => /\ apk' # <<>>
               /\ apk'[1].pt = apk[1].pt
               /\ apk'[1].keys = apk[1].keys
               /\ apk'[1].res = "InvalidPoint"
               /\ ~ValidPoint(apk'[1].pt) ]_vars

\* a Default accumulator after a call with the empty slice
C27_Witness ==
    /\ apk # <<>> /\ apk[1].keys = <<>>
    /\ apk[1].res = "InvalidPoint" /\ apk[1].pks = <<>>
    /\ apk[1].self = Identity("G2") /\ apk[1].pt = Identity("G2")

\* C28: the Default values of PublicKey, MultisigPublicKey, Signature and
\* MultisigSignature wrap the identity and are invalid: the validity
\* predicate is false on them, a verify call with a default key or a
\* default signature returns Err(InvalidPoint) for every message, and
\* MultisigPublicKey::aggregate on a slice that contains PublicKey::default()
\* returns Err(InvalidPoint).
C28_DefaultsAreInvalid ==
    /\ \A ty \in Types \ {"SecretKey"} :
           /\ Default(ty) = Point(GroupOf(ty), 0, 0, TRUE)
           /\ ~IsValid(ty, Default(ty))
    /\ (ver # <<>> /\ (\/ ver[1].key = Default("PublicKey")
                       \/ ver[1].sig = Default("Signature")))
           => ver[1].out.res = "InvalidPoint"
    /\ (agg # <<>> /\ \E i \in 1 .. Len(agg[1].pks) :
                          agg[1].pks[i] = Default("PublicKey"))
           => agg[1].out = [tag |-> "Err", err |-> "InvalidPoint"]

\* a default key asked to verify a valid signature on a non-empty message
C28_Witness ==
    /\ ver # <<>> /\ ver[1].key = Default("MultisigPublicKey")
    /\ ValidPoint(ver[1].sig) /\ ver[1].msg # <<>>
    /\ ver[1].out.res = "InvalidPoint"

\* C29: MultisigSignature::aggregate is a fold of a commutative,
\* associative addition: s.aggregate(&[]) equals s, aggregating one
\* signature per call equals aggregating them in one call, and
\* s.aggregate(xs) equals s.aggregate(ys) for every permutation ys of xs.
C29_SigAggregateFold ==
    (call # <<>> /\ call[1].op = "aggregate") =>
        LET r == call[1]
        IN  /\ r.sigs = <<>> => r.out = r.self
            /\ r.each = r.out
            /\ \A ys \in Rearrangements(r.sigs) :
                   SigAggregateCall(r.self, ys).ret = r.out

C29_Witness ==
    /\ call # <<>> /\ call[1].op = "aggregate"
    /\ Len(call[1].sigs) = MaxKeys
    /\ call[1].sigs[1] # call[1].sigs[MaxKeys]
    /\ ValidPoint(call[1].self) /\ AllValidPoints(call[1].sigs)
    /\ call[1].each = call[1].out
    /\ SigAggregateCall(call[1].self,
                        << call[1].sigs[MaxKeys], call[1].sigs[1] >>
                            \o SubSeq(call[1].sigs, 2, MaxKeys - 1)).ret
           = SigAggregateCall(call[1].self,
                              << call[1].sigs[1], call[1].sigs[MaxKeys] >>
                                  \o SubSeq(call[1].sigs, 2, MaxKeys - 1)).ret

====
